---- MODULE Spec2Model ----
(***************************************************************************)
(* Checkout flow of src/src/pages/Payment.tsx: the Payment page, its       *)
(* createOrder mutation and the Supabase tables it reads and writes        *)
(* (orders, order_items, cart_items, products).                            *)
(*                                                                         *)
(* JavaScript values that are falsy (undefined, null, 0, '') are written   *)
(* 0 for numbers/identities and "" for strings, so that `a || b` is        *)
(* modelled by Or(a, b) below.  Text fields checked by a regular           *)
(* expression are sequences of one-character strings.                      *)
(***************************************************************************)
EXTENDS Integers, Sequences, FiniteSets, TLC

(***************************************************************************)
(* Bounds of the model.                                                    *)
(***************************************************************************)
MaxOrders == 1          \* rows of the orders table after which Pay Now is no
                        \* longer explored

(***************************************************************************)
(* Sample domains.                                                         *)
(***************************************************************************)
NoUser == 0                       \* useAuth() gives no user
ActingUser == 1
OtherUser == 2
Products == {1, 2}                \* product identities that can be in the catalog
\* <<product, quantity>> of location.state explored (0: not supplied)
BuyNowStates == {<<0, 0>>, <<1, 0>>, <<1, -1>>, <<2, 2>>}
\* cart_items.id of the k-th row of the acting user
CartRowIds == <<101, 102>>
\* <<product_id, quantity>> a cart_items row of the acting user can hold
\* (quantity 0: zero or missing)
CartLines == {<<2, 2>>, <<1, 1>>, <<1, 0>>}
PriceOf(p) == 50 * p              \* products.price of product p

\* a || b of JavaScript on numbers, 0 standing for every falsy value
Or(a, b) == IF a # 0 THEN a ELSE b

\* a || b of JavaScript on strings
OrStr(a, b) == IF a # "" THEN a ELSE b

(***************************************************************************)
(* Text and the regular expressions of the zod schemas.                    *)
(***************************************************************************)
Digits == {"0", "1", "2", "3", "4", "5", "6", "7", "8", "9"}
Letters == {"a", "b", "e", "k", "n", "r", "s", "u", "_"}
WordChars == Digits \cup Letters                \* \w
HandleChars == WordChars \cup {".", "-"}        \* [\w.-]

AllIn(s, lo, hi, chars) == \A i \in lo..hi : s[i] \in chars

\* /^[\w.-]+@[\w.-]+$/
MatchesUpi(s) ==
    \E i \in 1..Len(s) :
        /\ s[i] = "@"
        /\ i > 1
        /\ i < Len(s)
        /\ AllIn(s, 1, i - 1, HandleChars)
        /\ AllIn(s, i + 1, Len(s), HandleChars)

\* /^\d{16}$/
MatchesCardNumber(s) == Len(s) = 16 /\ AllIn(s, 1, 16, Digits)

\* /^(0[1-9]|1[0-2])\/\d{2}$/
MatchesExpiry(s) ==
    /\ Len(s) = 5
    /\ \/ s[1] = "0" /\ s[2] \in Digits \ {"0"}
       \/ s[1] = "1" /\ s[2] \in {"0", "1", "2"}
    /\ s[3] = "/"
    /\ AllIn(s, 4, 5, Digits)

\* /^\d{3}$/
MatchesCvv(s) == Len(s) = 3 /\ AllIn(s, 1, 3, Digits)

UpiInvalidMsg == "Invalid UPI ID format"
CardNumberMsg == "Card number must be 16 digits"
ExpiryMsg == "Invalid expiry format (MM/YY)"
CvvMsg == "CVV must be 3 digits"
AddressMsg == "Please enter your address"
PhoneMsg == "Please enter your phone number"
BankMsg == "Please select a bank"
CartEmptyMsg == "Cart is empty"
NoValidProductsMsg == "No valid products found for this order"
SuccessMsg == "Order placed successfully!"
FallbackMsg == "Failed to place order"

\* upiSchema.parse: the issues zod collects, in schema order
upiSchema(upiId) == IF MatchesUpi(upiId) THEN <<>> ELSE <<UpiInvalidMsg>>

\* cardSchema with the fields checked in the opposite order
cardSchema_CvvFirst(cardNumber, expiry, cvv) ==
    (IF MatchesCvv(cvv) THEN <<>> ELSE <<CvvMsg>>)
    \o (IF MatchesExpiry(expiry) THEN <<>> ELSE <<ExpiryMsg>>)
    \o (IF MatchesCardNumber(cardNumber) THEN <<>> ELSE <<CardNumberMsg>>)

\* cardSchema.parse: the issues zod collects, in schema order
cardSchema(cardNumber, expiry, cvv) ==
    (IF MatchesCardNumber(cardNumber) THEN <<>> ELSE <<CardNumberMsg>>)
    \o (IF MatchesExpiry(expiry) THEN <<>> ELSE <<ExpiryMsg>>)
    \o (IF MatchesCvv(cvv) THEN <<>> ELSE <<CvvMsg>>)

(***************************************************************************)
(* Form state of the page (useState, lines 42-49) as the user can have     *)
(* left it when Pay Now is pressed.  Fields of a payment method that is    *)
(* not selected keep their initial value ''.                               *)
(***************************************************************************)
Empty == <<>>
UserAtBank == <<"u", "s", "e", "r", "@", "b", "a", "n", "k">>
UserOnly == <<"u", "s", "e", "r">>
UserAt == <<"u", "s", "e", "r", "@">>
Card16 == <<"1", "2", "3", "4", "5", "6", "7", "8",
            "1", "2", "3", "4", "5", "6", "7", "8">>
Card15 == <<"1", "2", "3", "4", "5", "6", "7", "8",
            "1", "2", "3", "4", "5", "6", "7">>
Expiry1225 == <<"1", "2", "/", "2", "5">>
Expiry1325 == <<"1", "3", "/", "2", "5">>
Cvv123 == <<"1", "2", "3">>
Cvv12 == <<"1", "2">>

banks ==
    {"State Bank of India", "HDFC Bank", "ICICI Bank", "Axis Bank",
     "Kotak Mahindra Bank", "Punjab National Bank", "Bank of Baroda",
     "Canara Bank", "Union Bank of India", "Bank of India"}
PaymentMethods == {"upi", "card", "netbanking", "cod"}

Form(a, ph, m, upi, cn, ex, cv, bk) ==
    [address |-> a, phone |-> ph, paymentMethod |-> m, upiId |-> upi,
     cardNumber |-> cn, expiry |-> ex, cvv |-> cv, selectedBank |-> bk]

\* the fields of the selected payment method, for every method
MethodInputs ==
    {Form("", "", "upi", upi, Empty, Empty, Empty, "") :
        upi \in {UserAtBank, UserOnly, UserAt}}
    \cup {Form("", "", "card", Empty, cn, ex, cv, "") :
        cn \in {Card16, Card15}, ex \in {Expiry1225, Expiry1325},
        cv \in {Cvv123, Cvv12}}
    \cup {Form("", "", "netbanking", Empty, Empty, Empty, Empty, bk) :
        bk \in {"", "HDFC Bank"}}
    \cup {Form("", "", "cod", Empty, Empty, Empty, Empty, "")}

\* every method input with the contact fields filled in; a missing address
\* or phone with a valid and with an invalid payment field
FormInputs ==
    {[m EXCEPT !.address = "12 Main St", !.phone = "9876543210"] :
        m \in MethodInputs}
    \cup {[m EXCEPT !.address = c[1], !.phone = c[2]] :
        m \in {f \in MethodInputs : f.upiId \in {UserAtBank, UserOnly}},
        c \in {<<"", "">>, <<"", "9876543210">>, <<"12 Main St", "">>}}

(***************************************************************************)
(* Errors thrown inside mutationFn.  A ZodError carries its issues; every  *)
(* other error (new Error(..), or the error object of a store call)        *)
(* carries a message, '' when the store gave none.                         *)
(***************************************************************************)
NoError == [kind |-> "none", errors |-> <<>>, message |-> ""]
PlainError(msg) == [kind |-> "error", errors |-> <<>>, message |-> msg]
ZodError(issues) == [kind |-> "zod", errors |-> issues, message |-> ""]

\* Outcomes of one store call: "ok", or the message of the error it returns
StoreErrors == {"storage error", ""}
StoreResults == {"ok"} \cup StoreErrors

(***************************************************************************)
(* Candidate items.                                                        *)
(***************************************************************************)
\* one element of itemsForPayment: a buy-now product spread with a quantity,
\* or a cart_items row joined with its product (products |-> its price)
Item(id, pid, price, nested, q) ==
    [id |-> id, product_id |-> pid, price |-> price, products |-> nested,
     quantity |-> q]

\* buyNowState.quantity || 1
buyNowQuantityOf(raw) == Or(raw, 1)

RECURSIVE SortedRows(_)
\* rows of a table in ascending id order
SortedRows(rows) ==
    IF rows = {} THEN <<>>
    ELSE LET r == CHOOSE x \in rows : \A y \in rows : x.id <= y.id
         IN <<r>> \o SortedRows(rows \ {r})

\* select('*, products(*)').eq('user_id', user.id) on cart_items.  products(*)
\* is embedded through the foreign key of cart_items.product_id, so every row
\* read carries the product it references; a row has no price of its own
cartQuery(cart, uid) ==
    LET rows == SortedRows({r \in cart : r.user_id = uid})
    IN [i \in 1..Len(rows) |->
            Item(rows[i].id, rows[i].product_id, 0, PriceOf(rows[i].product_id),
                 rows[i].quantity)]

\* itemsForPayment
itemsForPaymentOf(buyNow, product, rawQuantity, cart) ==
    IF buyNow
        THEN <<Item(product, 0, IF product = 0 THEN 0 ELSE PriceOf(product), 0,
                    buyNowQuantityOf(rawQuantity))>>
        ELSE cart

\* item.price || item.products?.price || 0
unitPrice(item) == Or(item.price, Or(item.products, 0))

RECURSIVE totalOf_RawQuantity(_)
\* totalOf without the `|| 1` on the quantity
totalOf_RawQuantity(items) ==
    IF items = <<>> THEN 0
    ELSE unitPrice(Head(items)) * Head(items).quantity
         + totalOf_RawQuantity(Tail(items))

RECURSIVE totalOf(_)
\* itemsForPayment.reduce(...)
totalOf(items) ==
    IF items = <<>> THEN 0
    ELSE unitPrice(Head(items)) * Or(Head(items).quantity, 1) + totalOf(Tail(items))

\* item.product_id || item.id
prodIdOf(item) == Or(item.product_id, item.id)

\* isValidProduct without the catalog test
isValidProduct_KeepAll(prodId, validProductIds) == TRUE

\* the test that keeps a candidate
isValidProduct(prodId, validProductIds) == prodId \in validProductIds

RECURSIVE buildOrderItems_StopAtDiscard(_, _, _)
\* buildOrderItems with a discarded candidate ending the list
buildOrderItems_StopAtDiscard(items, validProductIds, orderId) ==
    IF items = <<>> THEN <<>>
    ELSE LET item == Head(items)
         IN IF isValidProduct(prodIdOf(item), validProductIds)
                THEN <<[order_id |-> orderId, product_id |-> prodIdOf(item),
                        quantity |-> item.quantity, price |-> unitPrice(item)]>>
                     \o buildOrderItems_StopAtDiscard(Tail(items), validProductIds,
                                                      orderId)
                ELSE <<>>

RECURSIVE buildOrderItems(_, _, _)
\* itemsForPayment.map(...).filter(Boolean)
buildOrderItems(items, validProductIds, orderId) ==
    IF items = <<>> THEN <<>>
    ELSE LET item == Head(items)
             rest == buildOrderItems(Tail(items), validProductIds, orderId)
         IN IF isValidProduct(prodIdOf(item), validProductIds)
                THEN <<[order_id |-> orderId, product_id |-> prodIdOf(item),
                        quantity |-> item.quantity, price |-> unitPrice(item)]>>
                     \o rest
                ELSE rest

(***************************************************************************)
(* Validation at the head of mutationFn.                                   *)
(***************************************************************************)
validatePaymentFields(f) ==
    CASE f.paymentMethod = "upi" ->
            IF upiSchema(f.upiId) = <<>> THEN NoError
            ELSE ZodError(upiSchema(f.upiId))
      [] f.paymentMethod = "card" ->
            IF cardSchema(f.cardNumber, f.expiry, f.cvv) = <<>> THEN NoError
            ELSE ZodError(cardSchema(f.cardNumber, f.expiry, f.cvv))
      [] f.paymentMethod = "netbanking" /\ f.selectedBank = "" ->
            PlainError(BankMsg)
      [] OTHER -> NoError

\* validate with the phone test placed before the address test
validate_PhoneFirst(uid, items, f) ==
    IF uid = NoUser \/ items = <<>> THEN PlainError(CartEmptyMsg)
    ELSE IF f.phone = "" THEN PlainError(PhoneMsg)
    ELSE IF f.address = "" THEN PlainError(AddressMsg)
    ELSE validatePaymentFields(f)

validate(uid, items, f) ==
    IF uid = NoUser \/ items = <<>> THEN PlainError(CartEmptyMsg)
    ELSE IF f.address = "" THEN PlainError(AddressMsg)
    ELSE IF f.phone = "" THEN PlainError(PhoneMsg)
    ELSE validatePaymentFields(f)

\* onErrorMessage without the `|| 'Failed to place order'`
onErrorMessage_NoFallback(err) ==
    IF err.kind = "zod" THEN err.errors[1]
    ELSE err.message

\* the message onError hands to toast.error
onErrorMessage(err) ==
    IF err.kind = "zod" THEN err.errors[1]
    ELSE OrStr(err.message, FallbackMsg)

(***************************************************************************)
(* State.                                                                  *)
(***************************************************************************)
VARIABLES
    user,            \* useAuth().user: its id, or NoUser
    isBuyNow,        \* location.state.buyNow
    buyNowProduct,   \* location.state.product: its id, 0 when not supplied
    buyNowQuantity,  \* location.state.quantity as supplied, 0 when not supplied
    cartItems,       \* data of the ['cart', user.id] query, <<>> when undefined
    loading,         \* the in-flight flag behind the Pay Now button
    route,           \* "payment", or where the page has navigated to
    orders,          \* table orders: sequence of headers, id = position
    order_items,     \* table order_items: sequence of rows
    cart_items,      \* table cart_items: set of rows
    products,        \* table products: ids of the rows in it
    cartRowsCreated, \* number of cart_items rows of the acting user ever created
    attempt          \* the latest createOrder run: position, closure and trace

vars == <<user, isBuyNow, buyNowProduct, buyNowQuantity, cartItems, loading,
          route, orders, order_items, cart_items, products, cartRowsCreated,
          attempt>>

page == <<user, isBuyNow, buyNowProduct, buyNowQuantity>>
tables == <<orders, order_items, cart_items, products, cartRowsCreated>>

\* the names under which an attempt's store calls are traced
OrderInsert == "orders.insert"
ProductsSelect == "products.select"
ItemsInsert == "order_items.insert"
CartDelete == "cart_items.delete"

NoAttempt ==
    [pc |-> "none", form |-> Form("", "", "upi", Empty, Empty, Empty, Empty, ""),
     items |-> <<>>, total |-> 0, order |-> 0, fetched |-> FALSE,
     validProductIds |-> {}, orderItems |-> <<>>, calls |-> <<>>,
     results |-> <<>>, toasts |-> <<>>, error |-> NoError,
     ordersBefore |-> 0, linesBefore |-> 0]

\* itemsForPayment of the current render
itemsForPayment ==
    itemsForPaymentOf(isBuyNow, buyNowProduct, buyNowQuantity, cartItems)

\* the redirects at the head of the render (lines 162-173)
renderGuard(uid, buyNow, cart, items) ==
    IF uid = NoUser THEN "/signin"
    ELSE IF ~buyNow /\ cart = <<>> THEN "/cart"
    ELSE IF buyNow /\ items = <<>> THEN "/products"
    ELSE "payment"

OtherUserCart ==
    {[id |-> 100, user_id |-> OtherUser, product_id |-> 1, quantity |-> 1]}

CartRow(k, p, q) ==
    [id |-> CartRowIds[k], user_id |-> ActingUser, product_id |-> p, quantity |-> q]

Init ==
    /\ user \in {NoUser, ActingUser}
    /\ isBuyNow \in BOOLEAN
    /\ \E st \in (IF isBuyNow THEN BuyNowStates ELSE {<<0, 0>>}) :
          /\ buyNowProduct = st[1]
          /\ buyNowQuantity = st[2]
    /\ products \in SUBSET Products
    /\ cartRowsCreated \in 0..Len(CartRowIds)
    /\ \E rows \in [1..cartRowsCreated -> CartLines] :
          cart_items = OtherUserCart
              \cup {CartRow(k, rows[k][1], rows[k][2]) : k \in 1..cartRowsCreated}
    /\ cartItems \in (IF user # NoUser /\ ~isBuyNow
                          THEN {<<>>, cartQuery(cart_items, user)}
                          ELSE {<<>>})
    /\ loading = FALSE
    /\ route = renderGuard(user, isBuyNow, cartItems,
                           itemsForPaymentOf(isBuyNow, buyNowProduct,
                                             buyNowQuantity, cartItems))
    /\ orders = <<>>
    /\ order_items = <<>>
    /\ attempt = NoAttempt

(***************************************************************************)
(* The cart query (lines 53-65) runs again and the page renders.           *)
(***************************************************************************)
CartQuery ==
    /\ route = "payment"
    /\ user # NoUser
    /\ ~isBuyNow
    /\ cartItems' = cartQuery(cart_items, user)
    /\ cartItems' # cartItems
    /\ route' = renderGuard(user, isBuyNow, cartItems', cartItems')
    /\ UNCHANGED <<page, loading, tables, attempt>>

(***************************************************************************)
(* createOrder: failure and success paths shared by its steps.             *)
(***************************************************************************)
\* Throw with the error swallowed and the attempt reported as placed
Throw_ReportsSuccess(a, err) ==
    [a EXCEPT !.pc = "succeeded",
              !.error = err,
              !.toasts = Append(@, [kind |-> "success", message |-> SuccessMsg])]

\* the attempt throws err: onError, then the finally of handlePayment
Throw(a, err) ==
    [a EXCEPT !.pc = "failed",
              !.error = err,
              !.toasts = Append(@, [kind |-> "error", message |-> onErrorMessage(err)])]

\* mutationFn returns the order: onSuccess
Return(a) ==
    [a EXCEPT !.pc = "succeeded",
              !.toasts = Append(@, [kind |-> "success", message |-> SuccessMsg])]

\* the header mutationFn inserts (lines 95-103)
orderHeader(id, uid, a) ==
    [id |-> id, user_id |-> uid, total_amount |-> a.total,
     payment_method |-> a.form.paymentMethod, payment_status |-> "completed",
     delivery_status |-> "ordered", address |-> a.form.address,
     phone |-> a.form.phone]

\* the first store call of mutationFn once validation has passed
firstCall == OrderInsert

\* loadingAfterFinally with the finally block left out: the flag stays as
\* setLoading(true) left it
loadingAfterFinally_StillSet == TRUE

\* setLoading(false) in the finally of handlePayment (line 180)
loadingAfterFinally == FALSE

\* payNowEnabled with the button never disabled
payNowEnabled_Always(inFlightFlag) == TRUE

\* the Pay Now button takes a click: disabled={loading} (line 331)
payNowEnabled(inFlightFlag) == ~inFlightFlag

(***************************************************************************)
(* Pay Now: handlePayment, and mutationFn up to its first await.           *)
(***************************************************************************)
HandlePayment ==
    /\ route = "payment"
    /\ payNowEnabled(loading)
    /\ Len(orders) < MaxOrders
    /\ \E f \in FormInputs :
          LET a == [NoAttempt EXCEPT !.form = f,
                                     !.items = itemsForPayment,
                                     !.total = totalOf(itemsForPayment),
                                     !.ordersBefore = Len(orders),
                                     !.linesBefore = Len(order_items)]
              err == validate(user, a.items, f)
          IN IF err # NoError
                 THEN /\ attempt' = Throw(a, err)
                      /\ loading' = loadingAfterFinally
                 ELSE /\ attempt' = [a EXCEPT !.pc = "insertOrder",
                                              !.calls = <<firstCall>>]
                      /\ loading' = TRUE
    /\ UNCHANGED <<page, cartItems, route, tables>>

\* throws with the error of a store call never looked at
throws_Ignored(res) == FALSE

\* if (error) throw error, after each store call (lines 106, 110, 135, 143)
throws(res) == res # "ok"

(***************************************************************************)
(* 1. The orders insert answers.                                           *)
(***************************************************************************)
OrderInsertResponse ==
    /\ attempt.pc = "insertOrder"
    /\ \E res \in StoreResults :
          LET inserted == res = "ok"
              a == [attempt EXCEPT !.results = Append(@, res),
                                   !.order = IF inserted THEN Len(orders) + 1 ELSE 0]
          IN /\ orders' = IF inserted
                              THEN Append(orders,
                                          orderHeader(Len(orders) + 1, user, attempt))
                              ELSE orders
             /\ IF throws(res)
                    THEN /\ attempt' = Throw(a, PlainError(res))
                         /\ loading' = loadingAfterFinally
                    ELSE /\ attempt' = [a EXCEPT !.pc = "fetchProducts",
                                                 !.calls = Append(@, ProductsSelect)]
                         /\ UNCHANGED loading
    /\ UNCHANGED <<page, cartItems, route, order_items, cart_items, products,
                   cartRowsCreated>>

(***************************************************************************)
(* 2. The products select answers; the order lines are built.              *)
(***************************************************************************)
ProductsResponse ==
    /\ attempt.pc = "fetchProducts"
    /\ \E res \in StoreResults :
          LET a == [attempt EXCEPT !.results = Append(@, res)]
          IN IF throws(res)
                 THEN /\ attempt' = Throw(a, PlainError(res))
                      /\ loading' = loadingAfterFinally
                 ELSE LET valid == IF res = "ok" THEN products ELSE {}
                          lines == buildOrderItems(a.items, valid, a.order)
                          b == [a EXCEPT !.fetched = TRUE,
                                         !.validProductIds = valid,
                                         !.orderItems = lines]
                      IN IF lines = <<>>
                             THEN /\ attempt' = Throw(b, PlainError(NoValidProductsMsg))
                                  /\ loading' = loadingAfterFinally
                             ELSE /\ attempt' = [b EXCEPT !.pc = "insertItems",
                                                          !.calls = Append(@, ItemsInsert)]
                                  /\ UNCHANGED loading
    /\ UNCHANGED <<page, cartItems, route, tables>>

\* clearsCart with step 4 left out
clearsCart_Never(buyNow) == FALSE

\* clearsCart with step 4 run in every flow
clearsCart_Always(buyNow) == TRUE

\* step 4 runs only in the normal cart flow (line 138)
clearsCart(buyNow) == ~buyNow

(***************************************************************************)
(* 3. The order_items insert answers.                                      *)
(***************************************************************************)
ItemsInsertResponse ==
    /\ attempt.pc = "insertItems"
    /\ \E res \in StoreResults :
          LET a == [attempt EXCEPT !.results = Append(@, res)]
          IN /\ order_items' = IF res = "ok" THEN order_items \o a.orderItems
                                             ELSE order_items
             /\ IF throws(res)
                    THEN /\ attempt' = Throw(a, PlainError(res))
                         /\ loading' = loadingAfterFinally
                         /\ UNCHANGED route
                    ELSE IF clearsCart(isBuyNow)
                        THEN /\ attempt' = [a EXCEPT !.pc = "clearCart",
                                                     !.calls = Append(@, CartDelete)]
                             /\ UNCHANGED <<loading, route>>
                        ELSE /\ attempt' = Return(a)
                             /\ loading' = loadingAfterFinally
                             /\ route' = "/order-confirmation"
    /\ UNCHANGED <<page, cartItems, orders, cart_items, products, cartRowsCreated>>

\* deleteCart removing only the rows the attempt has ordered
deleteCart_OrderedOnly(cart, uid) ==
    {r \in cart :
        \/ r.user_id # uid
        \/ \A i \in DOMAIN attempt.items :
              \/ attempt.items[i].id # r.id
              \/ prodIdOf(attempt.items[i]) \notin attempt.validProductIds}

\* deleteCart without the eq('user_id', ...) filter
deleteCart_AllRows(cart, uid) == {}

\* delete().eq('user_id', user.id) on cart_items
deleteCart(cart, uid) == {r \in cart : r.user_id # uid}

(***************************************************************************)
(* 4. The cart_items delete answers.                                       *)
(***************************************************************************)
CartDeleteResponse ==
    /\ attempt.pc = "clearCart"
    /\ \E res \in StoreResults :
          LET a == [attempt EXCEPT !.results = Append(@, res)]
          IN /\ cart_items' = IF res = "ok" THEN deleteCart(cart_items, user)
                                            ELSE cart_items
             /\ IF throws(res)
                    THEN /\ attempt' = Throw(a, PlainError(res))
                         /\ UNCHANGED route
                    ELSE /\ attempt' = Return(a)
                         /\ route' = "/order-confirmation"
    /\ loading' = loadingAfterFinally
    /\ UNCHANGED <<page, cartItems, orders, order_items, products, cartRowsCreated>>

(***************************************************************************)
(* The environment: the catalog is maintained elsewhere, and the user can  *)
(* add to the cart from another page or device.                            *)
(***************************************************************************)
CatalogAdd ==
    /\ \E p \in Products \ products : products' = products \cup {p}
    /\ UNCHANGED <<page, cartItems, loading, route, orders, order_items, cart_items,
                   cartRowsCreated, attempt>>

CatalogRemove ==
    /\ \E p \in products : products' = products \ {p}
    /\ UNCHANGED <<page, cartItems, loading, route, orders, order_items, cart_items,
                   cartRowsCreated, attempt>>

CartAdd ==
    /\ user # NoUser
    /\ cartRowsCreated < Len(CartRowIds)
    /\ \E l \in CartLines :
          cart_items' = cart_items \cup {CartRow(cartRowsCreated + 1, l[1], l[2])}
    /\ cartRowsCreated' = cartRowsCreated + 1
    /\ UNCHANGED <<page, cartItems, loading, route, orders, order_items, products,
                   attempt>>

Next ==
    \/ CartQuery
    \/ HandlePayment
    \/ OrderInsertResponse
    \/ ProductsResponse
    \/ ItemsInsertResponse
    \/ CartDeleteResponse
    \/ CatalogAdd
    \/ CatalogRemove
    \/ CartAdd

Spec == Init /\ [][Next]_vars

\* every store call that has been issued is answered: each await of
\* mutationFn resumes once its request has settled
LiveSpec ==
    /\ Init
    /\ [][Next]_vars
    /\ WF_vars(OrderInsertResponse)
    /\ WF_vars(ProductsResponse)
    /\ WF_vars(ItemsInsertResponse)
    /\ WF_vars(CartDeleteResponse)

(***************************************************************************)
(* Vocabulary of the properties.                                           *)
(***************************************************************************)
Range(s) == {s[i] : i \in DOMAIN s}
IsPrefix(s, t) == Len(s) <= Len(t) /\ \A i \in DOMAIN s : s[i] = t[i]
Ended == attempt.pc \in {"failed", "succeeded"}
CallOrder == <<OrderInsert, ProductsSelect, ItemsInsert, CartDelete>>
ErrorToast(msg) == [kind |-> "error", message |-> msg]
SuccessToast == [kind |-> "success", message |-> SuccessMsg]

\* the rows of order_items the latest attempt has inserted
AttemptLines == SubSeq(order_items, attempt.linesBefore + 1, Len(order_items))

\* no candidate of the latest attempt resolves to a product of its snapshot
NoCandidateInSnapshot ==
    /\ attempt.fetched
    /\ \A i \in DOMAIN attempt.items :
          prodIdOf(attempt.items[i]) \notin attempt.validProductIds

\* the fields of the selected payment method are well formed
PaymentFieldsValid(f) ==
    CASE f.paymentMethod = "upi" -> MatchesUpi(f.upiId)
      [] f.paymentMethod = "card" ->
            /\ MatchesCardNumber(f.cardNumber)
            /\ MatchesExpiry(f.expiry)
            /\ MatchesCvv(f.cvv)
      [] f.paymentMethod = "netbanking" -> f.selectedBank # ""
      [] OTHER -> TRUE

InvalidInput(f) == f.address = "" \/ f.phone = "" \/ ~PaymentFieldsValid(f)
PaymentFieldMsgs == {UpiInvalidMsg, CardNumberMsg, ExpiryMsg, CvvMsg, BankMsg}

(***************************************************************************)
(* C1.  When no candidate of an attempt resolves to a product of the       *)
(* catalog snapshot, the attempt fails with 'No valid products found for   *)
(* this order' and no order header and no order line of that attempt is    *)
(* in the order store.                                                     *)
(***************************************************************************)
C1_NoOrderWithoutValidProducts ==
    (Ended /\ NoCandidateInSnapshot) =>
        /\ attempt.pc = "failed"
        /\ attempt.toasts = <<ErrorToast(NoValidProductsMsg)>>
        /\ AttemptLines = <<>>
        /\ Len(orders) = attempt.ordersBefore
        /\ \A i \in DOMAIN orders : orders[i].id # attempt.order

(***************************************************************************)
(* C2.  Every order line of the order of the latest attempt carries a      *)
(* product identity that is in the catalog snapshot that attempt fetched.  *)
(***************************************************************************)
C2_LinesWithinSnapshot ==
    \A i \in DOMAIN order_items :
        order_items[i].order_id = attempt.order =>
            /\ attempt.fetched
            /\ order_items[i].product_id \in attempt.validProductIds

\* a line has been stored, a candidate was discarded, and the catalog has
\* since lost the product of a stored line
C2_Witness ==
    /\ attempt.order # 0
    /\ AttemptLines # <<>>
    /\ Len(attempt.orderItems) < Len(attempt.items)
    /\ \E i \in DOMAIN AttemptLines : AttemptLines[i].product_id \notin products

(***************************************************************************)
(* C3.  A Pay Now whose input is invalid (empty address, empty phone or    *)
(* malformed fields of the selected payment method) ends at once, issues   *)
(* no store call and leaves orders, order_items, cart_items and products   *)
(* as they were; the address is reported before the phone, and both        *)
(* before the payment fields.                                              *)
(***************************************************************************)
C3_ValidationBeforePersistence ==
    [][(~loading /\ attempt' # attempt /\ InvalidInput(attempt'.form)) =>
          /\ attempt'.pc = "failed"
          /\ attempt'.calls = <<>>
          /\ attempt'.results = <<>>
          /\ attempt'.order = 0
          /\ UNCHANGED <<orders, order_items, cart_items, products>>
          /\ Len(attempt'.toasts) = 1
          /\ attempt'.form.address = ""
                => attempt'.toasts[1] = ErrorToast(AddressMsg)
          /\ (attempt'.form.address # "" /\ attempt'.form.phone = "")
                => attempt'.toasts[1] = ErrorToast(PhoneMsg)
          /\ (attempt'.form.address # "" /\ attempt'.form.phone # "")
                => attempt'.toasts[1].message \in PaymentFieldMsgs]_vars

\* an attempt with no address, no phone and a malformed UPI id has ended
C3_Witness ==
    /\ attempt.pc = "failed"
    /\ attempt.form.address = ""
    /\ attempt.form.phone = ""
    /\ ~PaymentFieldsValid(attempt.form)
    /\ attempt.toasts = <<ErrorToast(AddressMsg)>>

(***************************************************************************)
(* C4.  The step that reports success leaves exactly one new order header  *)
(* of the acting user, a non-empty batch of new order lines that all       *)
(* reference it and carry products of the attempt's snapshot, one success  *)
(* notification, the order-confirmation route and, in the cart flow, no    *)
(* cart_items row of the acting user.                                      *)
(***************************************************************************)
C4_SuccessMeansOrderPlaced ==
    [][(attempt.pc # "succeeded" /\ attempt'.pc = "succeeded") =>
          /\ Len(orders') = attempt'.ordersBefore + 1
          /\ attempt'.order = Len(orders')
          /\ orders'[attempt'.order].id = attempt'.order
          /\ orders'[attempt'.order].user_id = user
          /\ Len(order_items') > attempt'.linesBefore
          /\ \A i \in (attempt'.linesBefore + 1)..Len(order_items') :
                /\ order_items'[i].order_id = attempt'.order
                /\ order_items'[i].product_id \in attempt'.validProductIds
          /\ attempt'.toasts = <<SuccessToast>>
          /\ route' = "/order-confirmation"
          /\ ~isBuyNow => \A r \in cart_items' : r.user_id # user]_vars

\* a cart checkout of two lines has been reported as placed
C4_Witness ==
    /\ attempt.pc = "succeeded"
    /\ ~isBuyNow
    /\ Len(attempt.items) = 2
    /\ route = "/order-confirmation"

(***************************************************************************)
(* C5.  The cart delete is issued only in the cart flow and only once the  *)
(* order lines of the attempt are stored; a cart_items row disappears      *)
(* only in the step that answers that delete.                              *)
(***************************************************************************)
C5_CartClearedAfterLines ==
    [][/\ (CartDelete \in Range(attempt'.calls) /\ CartDelete \notin Range(attempt.calls))
            => /\ ~isBuyNow
               /\ attempt'.orderItems # <<>>
               /\ SubSeq(order_items', attempt'.linesBefore + 1, Len(order_items'))
                    = attempt'.orderItems
       /\ cart_items' # cart_items /\ cart_items \ cart_items' # {}
            => /\ ~isBuyNow
               /\ attempt.pc = "clearCart"
               /\ AttemptLines = attempt.orderItems
               /\ AttemptLines # <<>>]_vars

\* the cart delete of a cart checkout is in flight
C5_Witness ==
    /\ attempt.pc = "clearCart"
    /\ CartDelete \in Range(attempt.calls)
    /\ \E r \in cart_items : r.user_id = user

(***************************************************************************)
(* C6.  The total_amount of the order header equals the sum over the       *)
(* candidate items, before reconciliation, of unit price times quantity,   *)
(* whichever candidates the snapshot keeps.                                *)
(***************************************************************************)
RECURSIVE SumPriceTimesQuantity(_)
SumPriceTimesQuantity(items) ==
    IF items = <<>> THEN 0
    ELSE unitPrice(Head(items)) * Head(items).quantity
         + SumPriceTimesQuantity(Tail(items))

RECURSIVE SumPriceTimesCoercedQuantity(_)
SumPriceTimesCoercedQuantity(items) ==
    IF items = <<>> THEN 0
    ELSE unitPrice(Head(items))
            * (IF Head(items).quantity = 0 THEN 1 ELSE Head(items).quantity)
         + SumPriceTimesCoercedQuantity(Tail(items))

C7_CatalogFetchBeforeHeaderInsert ==
    \A j \in DOMAIN attempt.calls :
        attempt.calls[j] = OrderInsert =>
            \E i \in 1..(j - 1) : attempt.calls[i] = ProductsSelect

(***************************************************************************)
(* C8.  The store calls of an attempt are issued in a fixed order, each    *)
(* at most once; a call that fails is the last call of its attempt, and    *)
(* the attempt has failed; after a failed orders insert there is no order  *)
(* header, no order line and no cart delete.                               *)
(***************************************************************************)
C8_FailureIsTerminal ==
    /\ IsPrefix(attempt.calls, CallOrder)
    /\ Len(attempt.results) <= Len(attempt.calls)
    /\ Len(attempt.calls) <= Len(attempt.results) + 1
    /\ \A i \in DOMAIN attempt.results :
          attempt.results[i] # "ok" =>
              /\ i = Len(attempt.calls)
              /\ attempt.pc = "failed"
              /\ ~loading
    /\ (attempt.results # <<>> /\ attempt.results[1] # "ok") =>
          /\ attempt.order = 0
          /\ Len(orders) = attempt.ordersBefore
          /\ AttemptLines = <<>>
    /\ Ended => Len(attempt.results) = Len(attempt.calls)

\* the orders insert of an attempt has failed
C8_Witness ==
    /\ attempt.pc = "failed"
    /\ attempt.calls = <<OrderInsert>>
    /\ attempt.results = <<"storage error">>

(***************************************************************************)
(* C9.  A failed order_items insert leaves the order header stored and     *)
(* the cart as it was; a failed cart delete leaves the header, its lines   *)
(* and the cart as they were; both end the attempt with an error           *)
(* notification and no navigation; no step removes a stored header or      *)
(* line.                                                                   *)
(***************************************************************************)
C9_NoRollback ==
    [][/\ (attempt.pc = "insertItems" /\ attempt' # attempt
              /\ attempt'.results[3] # "ok")
            => /\ attempt'.pc = "failed"
               /\ attempt'.order \in DOMAIN orders'
               /\ UNCHANGED <<orders, order_items, cart_items, route>>
               /\ Len(attempt'.toasts) = 1
               /\ attempt'.toasts[1].kind = "error"
       /\ (attempt.pc = "clearCart" /\ attempt' # attempt
              /\ attempt'.results[4] # "ok")
            => /\ attempt'.pc = "failed"
               /\ attempt'.order \in DOMAIN orders'
               /\ SubSeq(order_items', attempt'.linesBefore + 1, Len(order_items'))
                    = attempt'.orderItems
               /\ attempt'.orderItems # <<>>
               /\ UNCHANGED <<orders, order_items, cart_items, route>>
               /\ Len(attempt'.toasts) = 1
               /\ attempt'.toasts[1].kind = "error"
       /\ IsPrefix(orders, orders')
       /\ IsPrefix(order_items, order_items')]_vars

\* the cart delete has failed: header, lines and cart rows are all stored
C9_Witness ==
    /\ attempt.pc = "failed"
    /\ Len(attempt.results) = 4
    /\ attempt.results[4] # "ok"
    /\ attempt.order \in DOMAIN orders
    /\ AttemptLines # <<>>
    /\ \E r \in cart_items : r.user_id = user

(***************************************************************************)
(* C10.  An attempt shows no notification while it runs and exactly one    *)
(* when it has ended: the success message; or, with no store call failed,  *)
(* the message of the failed validation or reconciliation; or, after a     *)
(* failed store call, the message of the store, 'Failed to place order'    *)
(* when it gave none.                                                      *)
(***************************************************************************)
ValidationMsgs == {CartEmptyMsg, AddressMsg, PhoneMsg} \cup PaymentFieldMsgs

C10_OneNotification ==
    /\ ~Ended => attempt.toasts = <<>>
    /\ Ended => Len(attempt.toasts) = 1
    /\ attempt.pc = "succeeded" => attempt.toasts = <<SuccessToast>>
    /\ attempt.pc = "failed" =>
          /\ attempt.toasts[1].kind = "error"
          /\ IF attempt.results # <<>> /\ attempt.results[Len(attempt.results)] # "ok"
                 THEN LET m == attempt.results[Len(attempt.results)]
                      IN attempt.toasts[1].message = (IF m = "" THEN FallbackMsg ELSE m)
                 ELSE IF attempt.calls = <<>>
                     THEN attempt.toasts[1].message \in ValidationMsgs
                     ELSE attempt.toasts[1].message = NoValidProductsMsg

\* a store call failed without a message: the fallback is what is shown
C10_Witness ==
    /\ attempt.pc = "failed"
    /\ attempt.results # <<>>
    /\ attempt.results[Len(attempt.results)] = ""
    /\ attempt.toasts = <<ErrorToast(FallbackMsg)>>

(***************************************************************************)
(* C11.  The in-flight flag is set exactly while an attempt is in flight,  *)
(* and Pay Now starts an attempt only when the flag is clear and no        *)
(* attempt is in flight: an attempt is never replaced or joined by another *)
(* before it has ended, and one attempt adds at most one order header, in  *)
(* the step that answers its orders insert.                                *)
(***************************************************************************)
InFlight == attempt.pc \in {"insertOrder", "fetchProducts", "insertItems", "clearCart"}

C11_SingleFlight ==
    [][/\ (attempt'.results = <<>> /\ attempt' # attempt)
            => /\ ~loading
               /\ ~InFlight
       /\ loading' = (attempt'.pc \in {"insertOrder", "fetchProducts",
                                       "insertItems", "clearCart"})
       /\ orders' # orders
            => /\ attempt.pc = "insertOrder"
               /\ Len(orders') = attempt.ordersBefore + 1
               /\ attempt'.order = Len(orders')]_vars

\* an attempt is in flight with its order header stored: the button is
\* disabled
C11_Witness ==
    /\ loading
    /\ attempt.pc = "fetchProducts"
    /\ Len(orders) = attempt.ordersBefore + 1

(***************************************************************************)
(* C12.  In the buy-now flow the candidate list an attempt works on has    *)
(* exactly one item, built from the supplied product, and its quantity is  *)
(* at least 1 whatever quantity was supplied (none, zero or negative).     *)
(***************************************************************************)
C12_BuyNowQuantityAtLeastOne ==
    (isBuyNow /\ attempt.pc # "none") =>
        /\ Len(attempt.items) = 1
        /\ attempt.items[1].id = buyNowProduct
        /\ attempt.items[1].quantity >= 1

(***************************************************************************)
(* C13.  A failed precondition is resolved by a redirect alone: without a  *)
(* user the page is at sign-in, with an empty candidate list in the cart   *)
(* flow at the cart, in the buy-now flow with no product supplied at the   *)
(* catalog; in each case no attempt has validated anything, issued a store *)
(* call or shown a notification.                                           *)
(***************************************************************************)
PreconditionRedirect ==
    IF user = NoUser THEN "/signin"
    ELSE IF ~isBuyNow /\ cartItems = <<>> THEN "/cart"
    ELSE IF isBuyNow /\ buyNowProduct = 0 THEN "/products"
    ELSE "payment"

C13_PreconditionRedirects ==
    PreconditionRedirect # "payment" =>
        /\ route = PreconditionRedirect
        /\ attempt.pc = "none"
        /\ attempt.calls = <<>>
        /\ attempt.toasts = <<>>

(***************************************************************************)
(* C14.  Once the snapshot is fetched, the order lines of the attempt are  *)
(* exactly its candidates whose resolved identity (product_id when the     *)
(* item has one, its id otherwise) is in the snapshot, in candidate order, *)
(* each with the quantity and unit price of its own candidate; these are   *)
(* the rows the order_items insert stores.                                 *)
(***************************************************************************)
ResolvedIdentity(item) == IF item.product_id # 0 THEN item.product_id ELSE item.id

KeptCandidates ==
    {i \in DOMAIN attempt.items :
        ResolvedIdentity(attempt.items[i]) \in attempt.validProductIds}

C14_LineIffInSnapshot ==
    attempt.fetched =>
        /\ Len(attempt.orderItems) = Cardinality(KeptCandidates)
        /\ \A i \in KeptCandidates :
              attempt.orderItems[Cardinality({j \in KeptCandidates : j <= i})]
                  = [order_id |-> attempt.order,
                     product_id |-> ResolvedIdentity(attempt.items[i]),
                     quantity |-> attempt.items[i].quantity,
                     price |-> unitPrice(attempt.items[i])]
        /\ AttemptLines = IF Len(attempt.results) >= 3 /\ attempt.results[3] = "ok"
                              THEN attempt.orderItems
                              ELSE <<>>

\* the first of two cart candidates was discarded and the line of the
\* second is stored
C14_Witness ==
    /\ attempt.fetched
    /\ Len(attempt.items) = 2
    /\ KeptCandidates = {2}
    /\ attempt.items[2].product_id # 0
    /\ Len(AttemptLines) = 1
    /\ AttemptLines[1].product_id = attempt.items[2].product_id

(***************************************************************************)
(* C15.  With the card method selected and the contact fields filled in,   *)
(* Pay Now fails with the message of the first violated rule in the order  *)
(* card number, expiry, CVV, issuing no store call; it passes validation   *)
(* only when all three fields are well formed.                             *)
(***************************************************************************)
CardAttempt ==
    /\ attempt.pc # "none"
    /\ attempt.form.paymentMethod = "card"
    /\ attempt.form.address # ""
    /\ attempt.form.phone # ""

FirstCardViolation(f) ==
    IF ~(Len(f.cardNumber) = 16 /\ \A i \in 1..16 : f.cardNumber[i] \in Digits)
        THEN CardNumberMsg
    ELSE IF ~MatchesExpiry(f.expiry) THEN ExpiryMsg
    ELSE IF ~(Len(f.cvv) = 3 /\ \A i \in 1..3 : f.cvv[i] \in Digits) THEN CvvMsg
    ELSE ""

C15_FirstCardRuleReported ==
    CardAttempt =>
        IF FirstCardViolation(attempt.form) = ""
            THEN attempt.calls # <<>>
            ELSE /\ attempt.pc = "failed"
                 /\ attempt.calls = <<>>
                 /\ attempt.toasts = <<ErrorToast(FirstCardViolation(attempt.form))>>

\* card number, expiry and CVV were all malformed: the card number message
\* is the one shown
C15_Witness ==
    /\ CardAttempt
    /\ attempt.form.cardNumber = Card15
    /\ attempt.form.expiry = Expiry1325
    /\ attempt.form.cvv = Cvv12
    /\ attempt.toasts = <<ErrorToast(CardNumberMsg)>>

(***************************************************************************)
(* C16.  No step of an attempt changes the catalog or a cart_items row of  *)
(* another user; a step of an attempt removes cart_items rows only in the  *)
(* cart flow, only rows of the acting user, and adds none; in the buy-now  *)
(* flow every step of an attempt leaves cart_items as it was.              *)
(***************************************************************************)
C16_CatalogAndForeignCartsUntouched ==
    [][attempt' # attempt =>
          /\ products' = products
          /\ cart_items' \subseteq cart_items
          /\ \A r \in cart_items \ cart_items' : r.user_id = user /\ ~isBuyNow
          /\ {r \in cart_items' : r.user_id # user}
                = {r \in cart_items : r.user_id # user}
          /\ isBuyNow => cart_items' = cart_items]_vars

\* a cart checkout has cleared the acting user's cart and the row of the
\* other user is still stored
C16_Witness ==
    /\ attempt.pc = "succeeded"
    /\ ~isBuyNow
    /\ attempt.results = <<"ok", "ok", "ok", "ok">>
    /\ cart_items = OtherUserCart

(***************************************************************************)
(* C17.  When an attempt has succeeded with no candidate discarded, the    *)
(* total_amount of its order header equals the sum of price times quantity *)
(* over the order lines stored for it.                                     *)
(***************************************************************************)
RECURSIVE SumOfLines(_)
SumOfLines(lines) ==
    IF lines = <<>> THEN 0
    ELSE Head(lines).price * Head(lines).quantity + SumOfLines(Tail(lines))

C17_TotalMatchesStoredLines ==
    (attempt.pc = "succeeded" /\ Len(AttemptLines) = Len(attempt.items)) =>
        orders[attempt.order].total_amount = SumOfLines(AttemptLines)

(***************************************************************************)
(* C18.  In the step in which the cart clear of a cart checkout succeeds,  *)
(* every cart_items row that disappears is the row of a candidate of the   *)
(* attempt that was kept by reconciliation and whose order line is stored. *)
(***************************************************************************)
C18_OnlyOrderedLinesCleared ==
    [][(attempt.pc = "clearCart" /\ attempt'.pc = "succeeded") =>
          \A r \in cart_items \ cart_items' :
              \E i \in KeptCandidates :
                  /\ attempt.items[i].id = r.id
                  /\ \E k \in DOMAIN AttemptLines :
                        AttemptLines[k].product_id = r.product_id]_vars

(***************************************************************************)
(* C18, amended.  In the step in which the cart clear of a cart checkout   *)
(* succeeds, the rows that disappear are all the cart_items rows of the    *)
(* acting user stored at that moment and no others: the rows of the        *)
(* candidates whose lines are stored, and also the rows of discarded       *)
(* candidates and rows added after the candidate list was read.            *)
(***************************************************************************)
C18_WholeCartOfUserCleared ==
    [][(attempt.pc = "clearCart" /\ attempt'.pc = "succeeded") =>
          /\ cart_items \ cart_items' = {r \in cart_items : r.user_id = user}
          /\ cart_items' \subseteq cart_items
          /\ AttemptLines = attempt.orderItems
          /\ \A i \in KeptCandidates :
                \A r \in cart_items' : r.id # attempt.items[i].id]_vars

\* a checkout of a one-line candidate list has succeeded after a second row
\* was added to the cart, and both rows are gone
C18_Witness ==
    /\ attempt.pc = "succeeded"
    /\ ~isBuyNow
    /\ Len(attempt.items) = 1
    /\ cartRowsCreated = 2
    /\ \A r \in cart_items : r.user_id # user

(***************************************************************************)
(* C19.  Given that every store call is answered, an attempt in flight     *)
(* eventually ends, by success or by failure, with the in-flight flag      *)
(* clear; the flag is never set when no attempt is in flight, so Pay Now   *)
(* is enabled again once the attempt has ended.                            *)
(***************************************************************************)
C19_AttemptEndsAndFlagResets ==
    /\ InFlight ~> (Ended /\ ~loading)
    /\ [](~InFlight => ~loading /\ payNowEnabled(loading))

\* an attempt has ended on a failed products select, after its header was
\* stored, and the flag is clear
C19_Witness ==
    /\ attempt.pc = "failed"
    /\ attempt.calls = <<OrderInsert, ProductsSelect>>
    /\ attempt.results[2] # "ok"
    /\ ~loading

====
